---- MODULE Spec2Model ----
(***************************************************************************)
(* A model of SoundSystem (src/sound_system.cpp): the pool of OpenAL       *)
(* sources, the queue of one-shot requests drained by play_all_sounds,     *)
(* looping sounds, and the name-keyed (deprecated) source API.             *)
(*                                                                         *)
(* The audio backend (openal_utils / OpenAL) is outside src/.  It is       *)
(* modelled as one record per source: playback state, attached buffer,     *)
(* loop flag, gain and position.  Gains are integers; the legal range      *)
(* [0,1] is 0..1, and 2 stands for any gain above the range.               *)
(***************************************************************************)
EXTENDS Integers, Sequences, FiniteSets, TLC

\* ---- bounds of the model ----
MaxSources == 2      \* largest pool size num_sources tried
MaxQueue == 2        \* longest playback queue

\* sound types "A" and "B": "A" is a key of sound_type_to_file, "B" has no file
TypeFiles == {"A"}
SoundNames == {"n1"}
SourceNames == {"s1"}
Gains == {0, 2}
\* the (type, position, gain) arguments tried for a one-shot or looping sound:
\* with gains in range, and with a gain above the range as well
PoolArgs == {<<"A", 1, 0>>, <<"B", 1, 0>>}
GainArgs == PoolArgs \cup {<<"A", 1, 2>>}

\* what queue_looping_sound returns when no source is free
BadSource == 999

VARIABLES
    build,                           \* build / backend flavour, fixed
    lifecycle,                       \* "alive", "torn_down" or "aborted"
    sound_sources,                   \* std::vector<ALuint>, creation order
    chan,                            \* backend state of every created source
    sound_type_to_buffer_id,         \* std::unordered_map<SoundType, ALuint>
    sound_name_to_loaded_buffer_id,  \* std::map<std::string, ALuint>
    source_name_to_source_id,        \* std::map<std::string, ALuint>
    sound_to_play_queue,             \* std::queue<QueuedSound>
    deleted_buffers,                 \* backend: buffer id -> times deleted
    deleted_sources,                 \* backend: source id -> times deleted
    enqueued,                        \* history: queue_sound calls since the last drain
    has_dropped,                     \* history: some request was discarded
    last                             \* history: the last call and its outcome

vars == <<build, lifecycle, sound_sources, chan, sound_type_to_buffer_id,
          sound_name_to_loaded_buffer_id, source_name_to_source_id,
          sound_to_play_queue, deleted_buffers, deleted_sources, enqueued, has_dropped, last>>

\* everything the program and the backend hold (no history variables)
program_state == <<lifecycle, sound_sources, chan, sound_type_to_buffer_id,
                   sound_name_to_loaded_buffer_id, source_name_to_source_id,
                   sound_to_play_queue, deleted_buffers, deleted_sources>>

deletions == <<deleted_buffers, deleted_sources>>

registries == <<sound_type_to_buffer_id, sound_name_to_loaded_buffer_id,
                source_name_to_source_id>>

history == <<enqueued, has_dropped>>

\* ---- the backend ----

\* a source as alGenSources creates it
FreshChannel ==
    [state |-> "Initial", buffer |-> 0, looping |-> FALSE, gain |-> 1, position |-> 0]

get_source_state(ch, s) == ch[s].state

set_source_buffer(ch, s, b) == [ch EXCEPT ![s].buffer = b]

detach_source_buffer(ch, s) == [ch EXCEPT ![s].buffer = 0]

set_source_position(ch, s, p) == [ch EXCEPT ![s].position = p]

set_source_gain(ch, s, g) == [ch EXCEPT ![s].gain = g]

set_source_looping(ch, s, l) == [ch EXCEPT ![s].looping = l]

\* a source with no buffer attached has nothing to play: the backend either
\* reports it Playing or takes it straight to Stopped (build.null_play)
play_source(ch, s) ==
    [ch EXCEPT ![s].state = IF ch[s].buffer = 0 THEN build.null_play ELSE "Playing"]

stop_source(ch, s) == [ch EXCEPT ![s].state = "Stopped"]

\* ---- helpers ----

Range(f) == {f[x] : x \in DOMAIN f}

SetMax(S) == IF S = {} THEN 0 ELSE CHOOSE m \in S : \A x \in S : x <= m

\* the name the backend gives the next generated buffer / source
NextBufferId ==
    SetMax(Range(sound_type_to_buffer_id) \cup Range(sound_name_to_loaded_buffer_id)) + 1

NextSourceId == SetMax(DOMAIN chan) + 1

Min(a, b) == IF a < b THEN a ELSE b

PoolSet == Range(sound_sources)

\* number of pool sources that are not Playing
FreeCount(ch) == Cardinality({s \in PoolSet : ch[s].state # "Playing"})

\* std::unordered_map::operator[]: an absent key is inserted with value 0
MapIndex(m, k) == IF k \in DOMAIN m THEN m ELSE m @@ (k :> 0)

\* ---- get_available_source_id ----

RECURSIVE ScanSources(_, _)
ScanSources(ch, i) ==
    IF i > Len(sound_sources) THEN 0
    ELSE IF get_source_state(ch, sound_sources[i]) # "Playing" THEN sound_sources[i]
    ELSE ScanSources(ch, i + 1)

\* a scan that resumes after the source it handed out last
GetAvailableRoundRobin(ch) ==
    LET free == {s \in PoolSet : ch[s].state # "Playing"}
        later == {s \in free : last.op = "get_available_source_id" /\ s # last.ret}
    IN IF later # {} THEN CHOOSE s \in later : TRUE ELSE ScanSources(ch, 1)

\* a scan that treats only sources that never played as free
GetAvailableInitialOnly(ch) ==
    LET free == {i \in 1..Len(sound_sources) : ch[sound_sources[i]].state = "Initial"}
    IN IF free = {} THEN 0 ELSE sound_sources[CHOOSE i \in free : \A j \in free : i <= j]

\* a scan over every source there is, named ones included
GetAvailableAnySource(ch) ==
    LET free == {s \in DOMAIN ch : get_source_state(ch, s) # "Playing"}
    IN IF free = {} THEN 0 ELSE CHOOSE s \in free : \A t \in free : s <= t

get_available_source_id(ch) == ScanSources(ch, 1)

\* ---- construction ----

\* init_sound_buffers: one buffer per file; a file that fails to decode gives 0
init_sound_buffers(files, bad) ==
    [t \in files |-> IF t \in bad THEN 0 ELSE IF t = "A" THEN 1 ELSE 2]

\* init_sound_sources: num_sources generated names, pushed in creation order
init_sound_sources(n) == [i \in 1..n |-> i]

Init ==
    /\ build \in [null_play : {"Playing", "Stopped"}]
    /\ lifecycle = "alive"
    /\ \E n \in 0..MaxSources, bad \in SUBSET TypeFiles :
          /\ sound_type_to_buffer_id = init_sound_buffers(TypeFiles, bad)
          /\ sound_sources = init_sound_sources(n)
          /\ chan = [s \in 1..n |-> FreshChannel]
    /\ sound_name_to_loaded_buffer_id = <<>>
    /\ source_name_to_source_id = <<>>
    /\ sound_to_play_queue = <<>>
    /\ deleted_buffers = <<>>
    /\ deleted_sources = <<>>
    /\ enqueued = 0
    /\ has_dropped = FALSE
    /\ last = [op |-> "constructor"]

\* ---- queue_sound ----

queue_sound(type, position, gain) ==
    /\ lifecycle = "alive"
    /\ Len(sound_to_play_queue) < MaxQueue
    /\ enqueued' = enqueued + 1
    /\ sound_to_play_queue' = Append(sound_to_play_queue,
           [seq |-> Len(sound_to_play_queue) + 1,
            type |-> type, position |-> position, gain |-> gain])
    /\ last' = [op |-> "queue_sound"]
    /\ UNCHANGED <<build, lifecycle, sound_sources, chan, registries, deletions,
                   has_dropped>>

\* ---- play_all_sounds ----

\* the body of the loop for a request that found a source: bind the buffer,
\* set position and gain, play
BindAndPlay(ch, source, buffer, queued_sound) ==
    play_source(
        set_source_gain(
            set_source_position(
                set_source_buffer(ch, source, buffer),
                source, queued_sound.position),
            source, queued_sound.gain),
        source)

\* the loop that gives up at the first request that finds no source
RECURSIVE PlayAllLoopBreak(_, _, _, _, _)
PlayAllLoopBreak(q, ch, reg, st, dr) ==
    IF q = <<>> THEN [queue |-> q, chan |-> ch, reg |-> reg, started |-> st, dropped |-> dr]
    ELSE LET queued_sound == Head(q)
             source == get_available_source_id(ch)
         IN IF source # 0
            THEN LET reg2 == MapIndex(reg, queued_sound.type)
                     buffer == reg2[queued_sound.type]
                     ch2 == BindAndPlay(ch, source, buffer, queued_sound)
                 IN PlayAllLoopBreak(Tail(q), ch2, reg2, Append(st, queued_sound), dr)
            ELSE [queue |-> Tail(q), chan |-> ch, reg |-> reg, started |-> st,
                  dropped |-> Append(dr, queued_sound)]

\* the while loop of play_all_sounds: q is the queue still to serve, ch the
\* backend sources, reg the type-keyed registry, st / dr the requests started
\* and dropped so far (a request carries seq, its place in the queue when
\* queue_sound pushed it)
RECURSIVE PlayAllLoop(_, _, _, _, _)
PlayAllLoop(q, ch, reg, st, dr) ==
    IF q = <<>> THEN [queue |-> q, chan |-> ch, reg |-> reg, started |-> st, dropped |-> dr]
    ELSE LET queued_sound == Head(q)
             source == get_available_source_id(ch)
         IN IF source # 0
            THEN LET reg2 == MapIndex(reg, queued_sound.type)
                     buffer == reg2[queued_sound.type]
                     ch2 == BindAndPlay(ch, source, buffer, queued_sound)
                 IN PlayAllLoop(Tail(q), ch2, reg2, Append(st, queued_sound), dr)
            ELSE PlayAllLoop(Tail(q), ch, reg, st, Append(dr, queued_sound))

\* a drain that keeps the requests it could not serve for the next call
PlayAllRequeueDropped(q, ch, reg) ==
    LET r == PlayAllLoop(q, ch, reg, <<>>, <<>>) IN [r EXCEPT !.queue = r.dropped]

PlayAllDrain(q, ch, reg) == PlayAllLoop(q, ch, reg, <<>>, <<>>)

play_all_sounds ==
    /\ lifecycle = "alive"
    /\ LET r == PlayAllDrain(sound_to_play_queue, chan, sound_type_to_buffer_id)
       IN /\ sound_to_play_queue' = r.queue
          /\ chan' = r.chan
          /\ sound_type_to_buffer_id' = r.reg
          /\ enqueued' = 0
          /\ has_dropped' = (has_dropped \/ r.dropped # <<>>)
          /\ last' = [op |-> "play_all_sounds",
                      pre_queue |-> sound_to_play_queue,
                      pre_free |-> FreeCount(chan),
                      pre_known |-> DOMAIN sound_type_to_buffer_id,
                      started |-> r.started,
                      dropped |-> r.dropped,
                      fresh |-> {s \in PoolSet : /\ r.chan[s].state = "Playing"
                                                 /\ chan[s].state # "Playing"},
                      err |-> "none"]
    /\ UNCHANGED <<build, lifecycle, sound_sources, sound_name_to_loaded_buffer_id,
                   source_name_to_source_id, deletions>>

\* ---- get_available_source_id, called on its own ----

AcquireFreeChannel ==
    /\ lifecycle = "alive"
    /\ last' = [op |-> "get_available_source_id",
                ret |-> get_available_source_id(chan),
                rep |-> last.op = "get_available_source_id",
                prev |-> IF last.op = "get_available_source_id" THEN last.ret ELSE 0]
    /\ UNCHANGED <<build, program_state, history>>

\* ---- queue_looping_sound ----

\* the looping sound started on the source found free
LoopOnSource(ch, source_id, buffer_id, position, gain) ==
    play_source(
        set_source_gain(
            set_source_position(
                set_source_buffer(
                    set_source_looping(ch, source_id, TRUE),
                    source_id, buffer_id),
                source_id, position),
            source_id, gain),
        source_id)

queue_looping_sound(type, position, gain) ==
    /\ lifecycle = "alive"
    /\ LET source_id == get_available_source_id(chan)
           reg2 == MapIndex(sound_type_to_buffer_id, type)
       IN /\ IF source_id # 0
             THEN /\ sound_type_to_buffer_id' = reg2
                  /\ chan' = LoopOnSource(chan, source_id, reg2[type], position, gain)
             ELSE UNCHANGED <<sound_type_to_buffer_id, chan>>
          /\ last' = [op |-> "queue_looping_sound",
                      type |-> type, position |-> position, gain |-> gain,
                      known |-> type \in DOMAIN sound_type_to_buffer_id,
                      pre_free |-> FreeCount(chan),
                      touched |-> chan' # chan,
                      err |-> "none",
                      ret |-> IF source_id # 0 THEN source_id ELSE BadSource]
    /\ UNCHANGED <<build, lifecycle, sound_sources, sound_name_to_loaded_buffer_id,
                   source_name_to_source_id, sound_to_play_queue, deletions, history>>

\* ---- stop_looping_sound ----

\* a stop that leaves the buffer attached
StopLoopingKeepBuffer(ch, source_id) ==
    LET ch1 == set_source_looping(ch, source_id, FALSE)
        state == get_source_state(ch1, source_id)
    IN IF state = "Playing" \/ state = "Paused" THEN stop_source(ch1, source_id) ELSE ch1

\* a stop that rewinds a source it finds neither playing nor paused
StopLoopingRewind(ch, source_id) ==
    LET ch1 == set_source_looping(ch, source_id, FALSE)
        state == get_source_state(ch1, source_id)
        ch2 == IF state = "Playing" \/ state = "Paused"
               THEN stop_source(ch1, source_id)
               ELSE [ch1 EXCEPT ![source_id].state = "Initial"]
    IN detach_source_buffer(ch2, source_id)

StopLooping(ch, source_id) ==
    LET ch1 == set_source_looping(ch, source_id, FALSE)
        state == get_source_state(ch1, source_id)
        ch2 == IF state = "Playing" \/ state = "Paused"
               THEN stop_source(ch1, source_id)
               ELSE ch1
    IN detach_source_buffer(ch2, source_id)

\* the handles passed are those of pool sources
stop_looping_sound(source_id) ==
    /\ lifecycle = "alive"
    /\ source_id \in PoolSet
    /\ chan' = StopLooping(chan, source_id)
    /\ last' = [op |-> "stop_looping_sound",
                source_id |-> source_id,
                was |-> chan[source_id].state,
                after_loop |-> last.op = "queue_looping_sound" /\ last.ret = source_id,
                loop_gain |-> IF last.op = "queue_looping_sound" THEN last.gain ELSE 0,
                loop_position |-> IF last.op = "queue_looping_sound" THEN last.position ELSE 0,
                again |-> last.op = "stop_looping_sound" /\ last.source_id = source_id,
                err |-> "none"]
    /\ UNCHANGED <<build, lifecycle, sound_sources, registries, sound_to_play_queue,
                   deletions, history>>

\* ---- deinitialize_openal and the destructor ----

\* one more deletion of every id in S
CountDeletes(f, S) ==
    [x \in DOMAIN f \cup S |->
        (IF x \in DOMAIN f THEN f[x] ELSE 0) + (IF x \in S THEN 1 ELSE 0)]

\* deletes the name-keyed buffers, the named sources and the pool sources
DeinitBuffers == CountDeletes(deleted_buffers, Range(sound_name_to_loaded_buffer_id))

DeinitSources ==
    CountDeletes(CountDeletes(deleted_sources, Range(source_name_to_source_id)), PoolSet)

Destructor ==
    /\ lifecycle \in {"alive", "torn_down"}
    /\ deleted_buffers' = DeinitBuffers
    /\ deleted_sources' = DeinitSources
    /\ lifecycle' = "destroyed"
    /\ last' = [op |-> "destructor"]
    /\ UNCHANGED <<build, sound_sources, chan, registries, sound_to_play_queue, history>>

\* ---- the name-keyed API ----

\* a create_sound_source that reports the taken name only after it has
\* created the source and overwritten the entry
CreateSoundSourceLateCheck(source_name) ==
    /\ lifecycle = "alive"
    /\ chan' = chan @@ (NextSourceId :> FreshChannel)
    /\ source_name_to_source_id' =
           [n \in DOMAIN source_name_to_source_id \cup {source_name} |->
               IF n = source_name THEN NextSourceId ELSE source_name_to_source_id[n]]
    /\ last' = [op |-> "create_sound_source",
                err |-> IF source_name \in DOMAIN source_name_to_source_id
                        THEN "runtime_error" ELSE "none",
                source_known |-> source_name \in DOMAIN source_name_to_source_id]
    /\ UNCHANGED <<build, lifecycle, sound_sources, sound_type_to_buffer_id,
                   sound_name_to_loaded_buffer_id, sound_to_play_queue, deletions, history>>

create_sound_source(source_name) ==
    /\ lifecycle = "alive"
    /\ IF source_name \in DOMAIN source_name_to_source_id
       THEN /\ last' = [op |-> "create_sound_source", err |-> "runtime_error",
                        source_known |-> TRUE]
            /\ UNCHANGED <<chan, source_name_to_source_id>>
       ELSE /\ chan' = chan @@ (NextSourceId :> FreshChannel)
            /\ source_name_to_source_id' =
                   source_name_to_source_id @@ (source_name :> NextSourceId)
            /\ last' = [op |-> "create_sound_source", err |-> "none",
                        source_known |-> FALSE]
    /\ UNCHANGED <<build, lifecycle, sound_sources, sound_type_to_buffer_id,
                   sound_name_to_loaded_buffer_id, sound_to_play_queue, deletions, history>>

\* decoded: whether load_sound_and_generate_openal_buffer returns a buffer
load_sound_into_system_for_playback(sound_name, decoded) ==
    /\ lifecycle = "alive"
    /\ IF sound_name \in DOMAIN sound_name_to_loaded_buffer_id
       THEN /\ last' = [op |-> "load_sound_into_system_for_playback",
                        err |-> "runtime_error", duplicate |-> TRUE]
            /\ UNCHANGED <<lifecycle, sound_name_to_loaded_buffer_id, deletions>>
       ELSE IF ~decoded
       THEN /\ deleted_buffers' = DeinitBuffers
            /\ deleted_sources' = DeinitSources
            /\ lifecycle' = "torn_down"
            /\ last' = [op |-> "load_sound_into_system_for_playback",
                        err |-> "runtime_error", duplicate |-> FALSE]
            /\ UNCHANGED sound_name_to_loaded_buffer_id
       ELSE /\ sound_name_to_loaded_buffer_id' =
                   sound_name_to_loaded_buffer_id @@ (sound_name :> NextBufferId)
            /\ last' = [op |-> "load_sound_into_system_for_playback",
                        err |-> "none", duplicate |-> FALSE]
            /\ UNCHANGED <<lifecycle, deletions>>
    /\ UNCHANGED <<build, sound_sources, chan, sound_type_to_buffer_id,
                   source_name_to_source_id, sound_to_play_queue, history>>

\* a rebinding that does not stop the source first
PlayOnNamedSourceNoStop(ch, source_id, loaded_sound_buffer_id) ==
    [chan |-> play_source(set_source_buffer(ch, source_id, loaded_sound_buffer_id),
                          source_id),
     stopped |-> FALSE]

\* the rebinding of play_sound once both names are known; stopped tells
\* whether stop_source was called before the buffer was set
PlayOnNamedSource(ch, source_id, loaded_sound_buffer_id) ==
    LET playing == get_source_state(ch, source_id) = "Playing"
        ch1 == IF playing THEN stop_source(ch, source_id) ELSE ch
    IN [chan |-> play_source(set_source_buffer(ch1, source_id, loaded_sound_buffer_id),
                             source_id),
        stopped |-> playing]

play_sound(source_name, sound_name) ==
    /\ lifecycle = "alive"
    /\ LET source_exists == source_name \in DOMAIN source_name_to_source_id
           sound_exists == sound_name \in DOMAIN sound_name_to_loaded_buffer_id
       IN IF ~sound_exists \/ ~source_exists
          THEN /\ last' = [op |-> "play_sound", err |-> "runtime_error",
                           sound_known |-> sound_exists, source_known |-> source_exists]
               /\ UNCHANGED chan
          ELSE LET source_id == source_name_to_source_id[source_name]
                   loaded_sound_buffer_id == sound_name_to_loaded_buffer_id[sound_name]
                   r == PlayOnNamedSource(chan, source_id, loaded_sound_buffer_id)
               IN IF loaded_sound_buffer_id = 0
                  THEN /\ UNCHANGED chan
                       /\ last' = [op |-> "play_sound", err |-> "none",
                                   sound_known |-> TRUE, source_known |-> TRUE,
                                   played |-> FALSE]
                  ELSE /\ chan' = r.chan
                       /\ last' = [op |-> "play_sound", err |-> "none",
                                   sound_known |-> TRUE, source_known |-> TRUE,
                                   played |-> TRUE,
                                   source_id |-> source_id,
                                   buffer |-> loaded_sound_buffer_id,
                                   was |-> chan[source_id].state,
                                   stopped |-> r.stopped]
    /\ UNCHANGED <<build, lifecycle, sound_sources, registries, sound_to_play_queue,
                   deletions, history>>

\* assert(0 <= gain && gain <= 1) aborts the process unless the build defines
\* NDEBUG (ndebug), which compiles the assertion out
set_source_gain_by_name(source_name, gain, ndebug) ==
    /\ lifecycle = "alive"
    /\ IF ~ndebug /\ ~(0 <= gain /\ gain <= 1)
       THEN /\ lifecycle' = "aborted"
            /\ last' = [op |-> "set_source_gain_by_name", err |-> "abort", gain |-> gain,
                        source_known |-> source_name \in DOMAIN source_name_to_source_id]
            /\ UNCHANGED chan
       ELSE IF source_name \notin DOMAIN source_name_to_source_id
       THEN /\ last' = [op |-> "set_source_gain_by_name", err |-> "runtime_error",
                        gain |-> gain, source_known |-> FALSE]
            /\ UNCHANGED <<chan, lifecycle>>
       ELSE /\ chan' = set_source_gain(chan, source_name_to_source_id[source_name], gain)
            /\ last' = [op |-> "set_source_gain_by_name", err |-> "none", gain |-> gain,
                        source_known |-> TRUE]
            /\ UNCHANGED lifecycle
    /\ UNCHANGED <<build, sound_sources, registries, sound_to_play_queue,
                   deletions, history>>

set_source_looping_by_name(source_name, looping) ==
    /\ lifecycle = "alive"
    /\ IF source_name \notin DOMAIN source_name_to_source_id
       THEN /\ last' = [op |-> "set_source_looping_by_name", err |-> "runtime_error",
                        source_known |-> FALSE]
            /\ UNCHANGED chan
       ELSE /\ chan' = set_source_looping(chan, source_name_to_source_id[source_name],
                                          looping)
            /\ last' = [op |-> "set_source_looping_by_name", err |-> "none",
                        source_known |-> TRUE]
    /\ UNCHANGED <<build, lifecycle, sound_sources, registries, sound_to_play_queue,
                   deletions, history>>

\* ---- what the backend and the application do to a source on their own ----

\* a sound that is not looping plays to its end
PlaybackCompletes(s) ==
    /\ lifecycle = "alive"
    /\ s \in DOMAIN chan
    /\ chan[s].state = "Playing"
    /\ ~chan[s].looping
    /\ chan' = [chan EXCEPT ![s].state = "Stopped"]
    /\ last' = [op |-> "backend"]
    /\ UNCHANGED <<build, lifecycle, sound_sources, registries, sound_to_play_queue,
                   deletions, history>>

\* the application pauses a source whose id it holds (alSourcePause); the
\* sound system never pauses one itself, it only observes AL_PAUSED
ExternalPause(s) ==
    /\ lifecycle = "alive"
    /\ s \in DOMAIN chan
    /\ chan[s].state = "Playing"
    /\ chan' = [chan EXCEPT ![s].state = "Paused"]
    /\ last' = [op |-> "backend"]
    /\ UNCHANGED <<build, lifecycle, sound_sources, registries, sound_to_play_queue,
                   deletions, history>>

\* ---- the system ----

AllSources == 1..(MaxSources + Cardinality(SourceNames))

Next ==
    \/ \E a \in GainArgs : queue_sound(a[1], a[2], a[3])
    \/ play_all_sounds
    \/ AcquireFreeChannel
    \/ \E a \in GainArgs : queue_looping_sound(a[1], a[2], a[3])
    \/ \E s \in AllSources : stop_looping_sound(s)
    \/ \E n \in SourceNames : create_sound_source(n)
    \/ \E n \in SoundNames, d \in BOOLEAN : load_sound_into_system_for_playback(n, d)
    \/ \E n \in SourceNames, m \in SoundNames : play_sound(n, m)
    \/ \E n \in SourceNames, g \in Gains, nd \in BOOLEAN : set_source_gain_by_name(n, g, nd)
    \/ \E n \in SourceNames, l \in BOOLEAN : set_source_looping_by_name(n, l)
    \/ \E s \in AllSources : PlaybackCompletes(s)
    \/ \E s \in AllSources : ExternalPause(s)
    \/ Destructor

Spec == Init /\ [][Next]_vars

\* the pool, the queue and the looping sounds alone
NextPool ==
    \/ \E a \in PoolArgs : queue_sound(a[1], a[2], a[3])
    \/ play_all_sounds
    \/ AcquireFreeChannel
    \/ \E a \in PoolArgs : queue_looping_sound(a[1], a[2], a[3])
    \/ \E s \in AllSources : stop_looping_sound(s)
    \/ \E s \in AllSources : PlaybackCompletes(s)
    \/ \E s \in AllSources : ExternalPause(s)

SpecPool == Init /\ [][NextPool]_vars

\* the type-keyed calls next to the registration and lookup of named sounds
NextRegistry ==
    \/ \E a \in PoolArgs : queue_sound(a[1], a[2], a[3])
    \/ play_all_sounds
    \/ \E a \in PoolArgs : queue_looping_sound(a[1], a[2], a[3])
    \/ \E n \in SourceNames : create_sound_source(n)
    \/ \E n \in SoundNames, d \in BOOLEAN : load_sound_into_system_for_playback(n, d)
    \/ \E n \in SourceNames, m \in SoundNames : play_sound(n, m)
    \/ \E s \in AllSources : PlaybackCompletes(s)

SpecRegistry == Init /\ [][NextRegistry]_vars

\* the calls that give a source its gain, on pool and on named sources
NextGain ==
    \/ \E a \in GainArgs : queue_sound(a[1], a[2], a[3])
    \/ play_all_sounds
    \/ \E a \in GainArgs : queue_looping_sound(a[1], a[2], a[3])
    \/ \E n \in SourceNames : create_sound_source(n)
    \/ \E n \in SourceNames, g \in Gains, nd \in BOOLEAN : set_source_gain_by_name(n, g, nd)
    \/ \E s \in AllSources : PlaybackCompletes(s)

SpecGain == Init /\ [][NextGain]_vars

\* the name-keyed API, with one-shot requests waiting in the queue
NextNamed ==
    \/ \E a \in PoolArgs : queue_sound(a[1], a[2], a[3])
    \/ \E n \in SourceNames : create_sound_source(n)
    \/ \E n \in SoundNames, d \in BOOLEAN : load_sound_into_system_for_playback(n, d)
    \/ \E n \in SourceNames, m \in SoundNames : play_sound(n, m)
    \/ \E n \in SourceNames, g \in Gains, nd \in BOOLEAN : set_source_gain_by_name(n, g, nd)
    \/ \E n \in SourceNames, l \in BOOLEAN : set_source_looping_by_name(n, l)
    \/ \E s \in AllSources : PlaybackCompletes(s)

SpecNamed == Init /\ [][NextNamed]_vars

\* a whole lifetime: registrations, playback, a decode failure, destruction
NextLifetime ==
    \/ \E a \in PoolArgs : queue_sound(a[1], a[2], a[3])
    \/ \E n \in SourceNames : create_sound_source(n)
    \/ \E n \in SoundNames, d \in BOOLEAN : load_sound_into_system_for_playback(n, d)
    \/ \E n \in SourceNames, m \in SoundNames : play_sound(n, m)
    \/ \E s \in AllSources : PlaybackCompletes(s)
    \/ Destructor

SpecLifetime == Init /\ [][NextLifetime]_vars

\* pool sources and named sources used side by side, with one registered
\* sound type, successful decodes and one value for each setter
MixedArgs == {<<"A", 1, 0>>}

NextMixed ==
    \/ \E a \in MixedArgs : queue_sound(a[1], a[2], a[3])
    \/ play_all_sounds
    \/ \E a \in MixedArgs : queue_looping_sound(a[1], a[2], a[3])
    \/ \E n \in SourceNames : create_sound_source(n)
    \/ \E n \in SoundNames : load_sound_into_system_for_playback(n, TRUE)
    \/ \E n \in SourceNames, m \in SoundNames : play_sound(n, m)
    \/ \E n \in SourceNames : set_source_gain_by_name(n, 0, TRUE)
    \/ \E n \in SourceNames : set_source_looping_by_name(n, TRUE)
    \/ \E s \in AllSources : PlaybackCompletes(s)

SpecMixed == Init /\ [][NextMixed]_vars

\* ---- properties ----

DrainDone == last.op = "play_all_sounds"

\* C1: a call to play_all_sounds terminates having taken every queued request
\* exactly once, and leaves the playback queue empty, whether or not each
\* request found a free source.
C1_QueueEmptyAfterDrain ==
    DrainDone =>
        /\ sound_to_play_queue = <<>>
        /\ Len(last.started) + Len(last.dropped) = Len(last.pre_queue)

\* a drain in which one request found a source and another did not
C1_Witness == DrainDone /\ last.started # <<>> /\ last.dropped # <<>>

\* C2 (as claimed): one call to play_all_sounds issues at most min(N, K) play
\* commands, N the pool size and K the number of queued requests.
C2_AtMostMinStarted ==
    DrainDone => Len(last.started) <= Min(Len(sound_sources), Len(last.pre_queue))

\* C3 (as claimed): with F pool sources not playing when the call begins and
\* K requests queued, the requests started are exactly the first min(F, K)
\* enqueued, in order, and the later ones are the ones dropped.
C3_FirstFreeServed ==
    DrainDone =>
        LET m == Min(last.pre_free, Len(last.pre_queue))
        IN /\ last.started = SubSeq(last.pre_queue, 1, m)
           /\ last.dropped = SubSeq(last.pre_queue, m + 1, Len(last.pre_queue))

\* C4: a request play_all_sounds discarded is never re-queued or retried: the
\* queue holds exactly the requests queue_sound pushed since the last drain,
\* in the order pushed, so a later call can start only those.
C4_NeverRequeued ==
    /\ Len(sound_to_play_queue) = enqueued
    /\ \A i \in 1..Len(sound_to_play_queue) : sound_to_play_queue[i].seq = i
    /\ DrainDone => \A i \in 1..Len(last.started) :
           \E j \in 1..Len(last.pre_queue) : last.started[i] = last.pre_queue[j]

\* an earlier drain dropped a request; this later one found sources free and
\* started what was queued for it, dropping nothing
C4_Witness == DrainDone /\ has_dropped /\ last.dropped = <<>> /\ last.started # <<>>

AcquireDone == last.op = "get_available_source_id"

\* C5: get_available_source_id returns the pool source earliest in creation
\* order among those not Playing (Initial, Paused, Stopped), and returns 0
\* exactly when every pool source is Playing, the empty pool included.
C5_FirstNotPlaying ==
    AcquireDone =>
        /\ last.ret = 0 <=> \A s \in PoolSet : chan[s].state = "Playing"
        /\ last.ret # 0 =>
              \E i \in 1..Len(sound_sources) :
                  /\ sound_sources[i] = last.ret
                  /\ chan[last.ret].state \in {"Initial", "Paused", "Stopped"}
                  /\ \A j \in 1..(i - 1) : chan[sound_sources[j]].state = "Playing"

\* the first source is Playing and the second, Paused, is the one returned
C5_Witness ==
    /\ AcquireDone
    /\ Len(sound_sources) >= 2
    /\ last.ret = sound_sources[2]
    /\ chan[last.ret].state = "Paused"

\* C6: get_available_source_id changes no source, queue or registry, and a
\* call repeated with the sources unchanged returns the same source.
C6_AcquirePure ==
    [][last'.op = "get_available_source_id" =>
          /\ UNCHANGED program_state
          /\ last'.rep => last'.ret = last'.prev]_vars

\* a second call in a row, returning a source
C6_Witness == AcquireDone /\ last.rep /\ last.ret # 0

LoopDone == last.op = "queue_looping_sound"

\* C7 (as claimed): called with every pool source Playing (or no pool source),
\* queue_looping_sound returns 0 and changes no source.
C7_SentinelIsZero ==
    (LoopDone /\ last.pre_free = 0) => (last.ret = 0 /\ ~last.touched)

StopAfterLoop == last.op = "stop_looping_sound" /\ last.after_loop

\* C8 (as claimed): queue_looping_sound followed at once by stop_looping_sound
\* on the handle returned leaves the source as alGenSources created it.
C8_FreshAfterStop == StopAfterLoop => chan[last.source_id] = FreshChannel

\* C8 (amended): it leaves the source Stopped, its loop flag cleared and its
\* buffer detached; gain and position stay those of the looping sound.
C8_StoppedUnboundAfterStop ==
    StopAfterLoop =>
        chan[last.source_id] = [state |-> "Stopped", buffer |-> 0, looping |-> FALSE,
                                gain |-> last.loop_gain,
                                position |-> last.loop_position]

\* the looping sound was playing when it was stopped
C8_Witness == StopAfterLoop /\ last.was = "Playing"

StartedUnknown ==
    \E i \in 1..Len(last.started) : last.started[i].type \notin last.pre_known

\* C9 (as claimed): registering a sound identifier already registered fails,
\* and every call that looks up an unregistered sound identifier (play_sound,
\* play_all_sounds, queue_looping_sound) fails instead of binding a buffer.
C9_IdentifierChecked ==
    /\ (last.op = "load_sound_into_system_for_playback" /\ last.duplicate)
           => last.err = "runtime_error"
    /\ (last.op = "play_sound" /\ ~last.sound_known) => last.err = "runtime_error"
    /\ (LoopDone /\ last.ret # BadSource /\ ~last.known) => last.err = "runtime_error"
    /\ (DrainDone /\ StartedUnknown) => last.err = "runtime_error"

\* C10 (as claimed): no source, pool or named, is ever given a gain outside
\* [0,1].
C10_GainInRange ==
    \A s \in DOMAIN chan : 0 <= chan[s].gain /\ chan[s].gain <= 1

NamedOps == {"create_sound_source", "play_sound", "set_source_gain_by_name",
             "set_source_looping_by_name"}

\* the call just made was given a name it had to reject: a source name already
\* taken (create_sound_source) or not registered (the others), or a sound name
\* not registered (play_sound)
BadNameCall ==
    /\ last.op \in NamedOps
    /\ \/ last.op = "create_sound_source" /\ last.source_known
       \/ last.op # "create_sound_source" /\ ~last.source_known
       \/ last.op = "play_sound" /\ ~last.sound_known

\* C11: a named-source call given a bad name fails, and changes no source, no
\* map and no queue.
C11_BadNameRejected ==
    [][BadNameCall' =>
          /\ last'.err # "none"
          /\ UNCHANGED <<sound_sources, chan, registries, sound_to_play_queue>>]_vars

\* create_sound_source was refused a name already taken, with a request queued
C11_Witness ==
    /\ BadNameCall
    /\ last.op = "create_sound_source"
    /\ sound_to_play_queue # <<>>

PlaySoundDone == last.op = "play_sound" /\ last.source_known /\ last.sound_known

TimesDeleted(f, x) == IF x \in DOMAIN f THEN f[x] ELSE 0

RegisteredBuffers ==
    (Range(sound_type_to_buffer_id) \cup Range(sound_name_to_loaded_buffer_id)) \ {0}

\* C13: once the SoundSystem is destroyed, every registered buffer and every
\* pool and named source has been deleted exactly once.
C13_DeletedExactlyOnce ==
    lifecycle = "destroyed" =>
        /\ \A b \in RegisteredBuffers : TimesDeleted(deleted_buffers, b) = 1
        /\ \A s \in DOMAIN chan : TimesDeleted(deleted_sources, s) = 1

\* C14: in every state of a constructed system, no sound identifier, name-keyed
\* or type-keyed, is mapped to the null buffer.
C14_NoNullBuffer ==
    lifecycle = "alive" =>
        /\ \A t \in DOMAIN sound_type_to_buffer_id : sound_type_to_buffer_id[t] # 0
        /\ \A n \in DOMAIN sound_name_to_loaded_buffer_id :
               sound_name_to_loaded_buffer_id[n] # 0

SchedulerOps == {"queue_sound", "play_all_sounds", "queue_looping_sound"}

\* C15: a pool source handed out by queue_looping_sound is Playing with looping
\* on, and no queue_sound, play_all_sounds or queue_looping_sound call changes a
\* pool source that is Playing with looping on.
C15_LoopHoldsItsSource ==
    [][last'.op \in SchedulerOps =>
          /\ (last'.op = "queue_looping_sound" /\ last'.ret # BadSource) =>
                 /\ chan'[last'.ret].state = "Playing"
                 /\ chan'[last'.ret].looping
          /\ \A s \in PoolSet :
                 (chan[s].state = "Playing" /\ chan[s].looping) => chan'[s] = chan[s]]_vars

\* C16: every source that play_all_sounds has just started plays with
\* looping off.
C16_DrainStartsOneShots ==
    DrainDone => \A s \in last.fresh : ~chan[s].looping

PoolOps == SchedulerOps \cup {"stop_looping_sound"}

\* C17: queue_sound, play_all_sounds, queue_looping_sound and
\* stop_looping_sound leave both sound-to-buffer maps as they were.
C17_RegistryReadOnly ==
    [][last'.op \in PoolOps =>
          UNCHANGED <<sound_type_to_buffer_id, sound_name_to_loaded_buffer_id>>]_vars

\* C18: stop_looping_sound raises nothing and leaves the source not Playing,
\* with looping off and no buffer; called again on the same handle it changes
\* nothing.
C18_StopIdempotent ==
    [][last'.op = "stop_looping_sound" =>
          /\ last'.err = "none"
          /\ chan'[last'.source_id].state # "Playing"
          /\ ~chan'[last'.source_id].looping
          /\ chan'[last'.source_id].buffer = 0
          /\ last'.was \in {"Initial", "Stopped"} =>
                 chan'[last'.source_id].state = last'.was
          /\ last'.again => chan' = chan]_vars

\* the second of two stop_looping_sound calls in a row on one handle: the
\* source was already stopped, and is the one the pool scan returns
C18_Witness ==
    /\ last.op = "stop_looping_sound"
    /\ last.again
    /\ last.was = "Stopped"
    /\ get_available_source_id(chan) = last.source_id

\* C20: stop_looping_sound never hits a source on which the preceding
\* play_all_sounds has just started a one-shot sound.
C20_StopSparesOneShots ==
    [][(last.op = "play_all_sounds" /\ last'.op = "stop_looping_sound") =>
          last'.source_id \notin last.fresh]_vars

NamedSet == Range(source_name_to_source_id)

\* C19: queue_sound, play_all_sounds and queue_looping_sound change no named
\* source; create_sound_source, play_sound, set_source_gain_by_name and
\* set_source_looping_by_name change no pool source, nor the pool, nor the
\* source get_available_source_id returns.
C19_PoolAndNamedApart ==
    [][/\ last'.op \in SchedulerOps =>
             \A s \in NamedSet : chan'[s] = chan[s]
       /\ last'.op \in NamedOps =>
             /\ \A s \in PoolSet : chan'[s] = chan[s]
             /\ sound_sources' = sound_sources
             /\ get_available_source_id(chan') = get_available_source_id(chan)]_vars

\* play_all_sounds has started a sound on a pool source while there is a
\* named source that is not Playing
C19_Witness ==
    /\ DrainDone
    /\ last.fresh # {}
    /\ \E s \in NamedSet : chan[s].state # "Playing"

====
